---------------------------- MODULE Spec2Model ----------------------------
(***************************************************************************)
(* Model of cccl-composer (src/src/main.rs): the `build` subcommand sweeps *)
(* the Cartesian product of build types, CTKs, C++ dialects and compilers, *)
(* runs cmake and ninja for every cell on the rayon pool, records results  *)
(* in BuildResult behind a Mutex and prints a nested summary table.        *)
(*                                                                         *)
(* rayon::scope is called from main, which is not a pool thread: the scope *)
(* closure is injected into the global pool and occupies one worker while  *)
(* it spawns; spawned jobs run on the pool's workers; a panic of a job is  *)
(* caught, the remaining jobs still run, and scope() re-raises the panic   *)
(* in main once every job has completed.  The global pool is not           *)
(* configured by the program, so it has rayon's default size: the number   *)
(* of available CPUs.                                                      *)
(***************************************************************************)
EXTENDS Integers, Sequences, FiniteSets, TLC

\* ------------------------------------------------------------- bounds
\* Largest number of cells (product of the four axis lengths) and largest
\* axis length explored.
MaxCells == 2

\* Largest std::thread::available_parallelism() explored.
MaxCpus == 2

\* Largest cell count and CPU count given to the allocator on its own.
MaxAllocCells == 12

MaxAllocCpus == 12

\* Largest axis length given to BuildResult::new on its own.
MaxMatrixAxis == 2

\* Largest cell count and longest compiler-label suffix given to the
\* derivation of the build directories on its own.
MaxDirCells == 2

MaxSuffixLen == 2

\* Largest number of lines ninja writes, and largest number of try_wait
\* calls in a row counted, in the read/poll loop on its own.
MaxLines == 3

MaxPolls == 3

\* ------------------------------------------------------------- labels
\* possible_values of --types (main.rs:131).
TypeLabels == {"debug", "release"}

\* Keys of config.ctks offered as possible_values of --ctks (main.rs:139).
CtkLabels == {"12.0"}

\* A subset of the possible_values of --dialects (main.rs:122).
DialectLabels == {"17"}

\* Keys of config.compilers offered as possible_values of --compilers
\* (main.rs:113).  A compiler label is the sequence of its characters: the
\* job rewrites it character by character (main.rs:349).
CompilerLabels == {<<"g", "c", "c">>}

\* Vec<&str> values of length <= n over S: clap keeps the values given on
\* the command line in order and does not remove repetitions.
SeqsUpTo(S, n) == UNION {[1..k -> S] : k \in 0..n}

Range(f) == {f[x] : x \in DOMAIN f}

Min(a, b) == IF a <= b THEN a ELSE b

VARIABLES
    mainPc,                 \* position of the main thread
    config,                 \* outcome of AppConfig::new()
    subcommand,             \* matches.subcommand()
    types, ctks, cpp, compilers,   \* the four resolved axes (Vec<&str>)
    results,                \* BuildResult.data behind Arc<Mutex<_>>
    lockHolder,             \* 0: Mutex free, i: job of cell i, -1: main
    num_builds, num_cpus, num_concurrent_builds, num_threads_per_build,
    mainPanic,              \* panic that unwound main, or "none"
    scopePc,                \* position of the rayon::scope closure
    spawned,                \* number of cells spawned by the nested loops
    cleared,                \* m.clear() has run
    pc,                     \* per cell: position of its job
    pb,                     \* per cell: its ProgressBar
    cmake,                  \* per cell: the cmake process
    ninja,                  \* per cell: the ninja child process
    readError,              \* per cell: read_line returned Err
    writes,                 \* per cell: calls of BuildResult::success made
    build_dir,              \* per cell: the build directory its job made
    stdout_pipe,            \* lines ninja wrote that no read() has taken
    stdout_open,            \* the write end of ninja's stdout is open
    emitted,                \* every line ninja has written, in order
    pb_updates,             \* the (total, current) pairs set on the bar
    polls_since_block,      \* try_wait calls since read_line last waited
    summary,                \* what summary_table.printstd() printed
    summaryPrinted,
    lastCall                \* MatrixSpec: the last BuildResult::success call

vars == <<mainPc, config, subcommand, types, ctks, cpp, compilers, results,
          lockHolder, num_builds, num_cpus, num_concurrent_builds,
          num_threads_per_build, mainPanic, scopePc, spawned, cleared, pc,
          pb, cmake, ninja, readError, writes, build_dir, stdout_pipe,
          stdout_open, emitted, pb_updates, polls_since_block, summary,
          summaryPrinted, lastCall>>

axisVars == <<types, ctks, cpp, compilers>>
allocVars == <<num_builds, num_cpus, num_concurrent_builds,
               num_threads_per_build>>
cellVars == <<pc, pb, cmake, ninja, readError, writes, build_dir>>
scopeVars == <<scopePc, spawned, cleared>>
streamVars == <<stdout_pipe, stdout_open, emitted, pb_updates,
                polls_since_block>>

\* ------------------------------------------------------- BuildResult
\* BuildResult::new as it would be with leaves that start true.
BuildResultNewTrue(ts, ss, ds, cs) ==
    [t \in Range(ts) |-> [s \in Range(ss) |-> [d \in Range(ds) |->
        [c \in Range(cs) |-> TRUE]]]]

\* BuildResult::new: four nested HashMaps, one key per distinct label of
\* each axis, every leaf false.
BuildResultNew(ts, ss, ds, cs) ==
    [t \in Range(ts) |-> [s \in Range(ss) |-> [d \in Range(ds) |->
        [c \in Range(cs) |-> FALSE]]]]

\* The chain of get/get_mut(..).unwrap() of success and status finds a leaf.
HasLeaf(data, t, s, d, c) ==
    /\ t \in DOMAIN data
    /\ s \in DOMAIN data[t]
    /\ d \in DOMAIN data[t][s]
    /\ c \in DOMAIN data[t][s][d]

\* success as it would be if every job wrote a copy of the matrix it took
\* at its start (all false) with its own leaf set: the last writer wins.
SuccessLastWriterWins(data, t, s, d, c) ==
    IF HasLeaf(data, t, s, d, c)
    THEN [x \in DOMAIN data |-> [y \in DOMAIN data[x] |->
            [z \in DOMAIN data[x][y] |-> [w \in DOMAIN data[x][y][z] |->
                <<x, y, z, w>> = <<t, s, d, c>>]]]]
    ELSE data

\* success as it would be if it set the leaf under every build type.
SuccessEveryType(data, t, s, d, c) ==
    IF HasLeaf(data, t, s, d, c)
    THEN [x \in DOMAIN data |-> [data[x] EXCEPT ![s][d][c] = TRUE]]
    ELSE data

\* BuildResult::success on a key the map holds; on any other key an
\* unwrap() of None panics and the map is left as it was.
\* success as it would be with entry(..).or_insert(..) in place of
\* get_mut(..).unwrap().
SuccessInsert(data, t, s, d, c) ==
    IF HasLeaf(data, t, s, d, c) THEN [data EXCEPT ![t][s][d][c] = TRUE]
    ELSE [x \in DOMAIN data \cup {t} |->
            IF x \in DOMAIN data THEN data[x]
            ELSE [y \in {s} |-> [z \in {d} |-> [w \in {c} |-> TRUE]]]]

success(data, t, s, d, c) ==
    IF HasLeaf(data, t, s, d, c) THEN [data EXCEPT ![t][s][d][c] = TRUE]
    ELSE data

\* BuildResult::status: the glyph of a leaf.
status(data, t, s, d, c) ==
    IF data[t][s][d][c] THEN "green_check" ELSE "red_cross"

\* All leaves of a matrix, as tuples (build type, ctk, dialect, compiler).
Leaves(data) ==
    UNION {UNION {UNION {{<<t, s, d, c>> : c \in DOMAIN data[t][s][d]} :
        d \in DOMAIN data[t][s]} : s \in DOMAIN data[t]} : t \in DOMAIN data}

\* --------------------------------------------------------- allocator
\* main.rs:307
NumBuilds(ts, ss, ds, cs) == Len(ss) * Len(cs) * Len(ds) * Len(ts)

\* main.rs:313 as it would be without the min.
NumConcurrentBuildsNoMin(cpus, builds) == cpus

\* main.rs:313

NumConcurrentBuilds(cpus, builds) == Min(cpus, builds)

\* main.rs:314, for a divisor that is not zero
NumThreadsPerBuild(cpus, concurrent) == cpus \div concurrent

\* ------------------------------------------------------------- cells
CellIds == 1..num_builds

\* The i-th cell spawned by the nested loops of main.rs:326-329
\* (ctk outermost, then compiler, dialect, build type innermost).
Cell(i) ==
    LET k == i - 1
        nT == Len(types)
        nD == Len(cpp)
        nC == Len(compilers)
    IN  [build_type |-> types[(k % nT) + 1],
         dialect |-> cpp[((k \div nT) % nD) + 1],
         compiler_label |-> compilers[((k \div (nT * nD)) % nC) + 1],
         ctk |-> ctks[(k \div (nT * nD * nC)) + 1]]

\* The leaf of cell i as the job passes it to success (main.rs:502).
Leaf(i) == <<Cell(i).build_type, Cell(i).ctk, Cell(i).dialect,
             Cell(i).compiler_label>>

LeafValue(data, q) == data[q[1]][q[2]][q[3]][q[4]]

\* compiler_label.replace("/", ".") (main.rs:349): every '/' becomes '.',
\* every other character is kept.
ReplaceSlash(label) ==
    [k \in 1..Len(label) |-> IF label[k] = "/" THEN "." ELSE label[k]]

\* main.rs:361-367: the components pushed on the current directory, in
\* order: "build", the ctk, the build type, the rewritten compiler label,
\* the dialect.
BuildDir(cell) ==
    <<"build", cell.ctk, cell.build_type, ReplaceSlash(cell.compiler_label),
      cell.dialect>>

\* Positions of a job at which it occupies a pool worker.
ActivePcs == {"cmake", "read", "poll", "finish", "lock", "locked"}

Running == {i \in CellIds : pc[i] \in ActivePcs}

\* Size of rayon's global pool (default: the available CPUs).
PoolSize == num_cpus

\* Workers in use: one per running job, one for the scope closure.
BusyWorkers ==
    Cardinality(Running) + (IF scopePc = "spawning" THEN 1 ELSE 0)


\* --------------------------------------------------------------- Init
Subcommands == {"build", "generate-zsh-completions", "run"}

Init ==
    /\ mainPc = "load_config"
    /\ config = "unloaded"
    /\ subcommand = "none"
    /\ types = <<>> /\ ctks = <<>> /\ cpp = <<>> /\ compilers = <<>>
    /\ results = <<>>
    /\ lockHolder = 0
    /\ num_builds = 0 /\ num_cpus = 0
    /\ num_concurrent_builds = 0 /\ num_threads_per_build = 0
    /\ mainPanic = "none"
    /\ scopePc = "idle" /\ spawned = 0 /\ cleared = FALSE
    /\ pc = <<>> /\ pb = <<>> /\ cmake = <<>> /\ ninja = <<>>
    /\ readError = <<>> /\ writes = <<>> /\ build_dir = <<>>
    /\ stdout_pipe = <<>> /\ stdout_open = FALSE /\ emitted = <<>>
    /\ pb_updates = <<>> /\ polls_since_block = 0
    /\ summary = <<>> /\ summaryPrinted = FALSE
    /\ lastCall = <<>>

\* ------------------------------------------------------- main thread
\* LoadConfig as it would be if main went on after a loading error.
LoadConfigGoesOn ==
    /\ mainPc = "load_config"
    /\ \E outcome \in {"ok", "error", "no_config_dir"} :
         /\ config' = outcome
         /\ mainPc' = "cli"
    /\ UNCHANGED <<subcommand, axisVars, results, lockHolder, allocVars,
                   mainPanic, scopeVars, cellVars, streamVars, summary,
                   summaryPrinted, lastCall>>

\* main.rs:547-574 and 54-62: AppConfig::new() succeeds; or it returns an
\* error and main prints "configuration loading error" and returns; or
\* there is no configuration directory and config_dir().unwrap() panics.
LoadConfig ==
    /\ mainPc = "load_config"
    /\ \E outcome \in {"ok", "error", "no_config_dir"} :
         /\ config' = outcome
         /\ mainPc' = IF outcome = "ok" THEN "cli" ELSE "exited"
         /\ mainPanic' = IF outcome = "no_config_dir"
                         THEN "unwrap_none" ELSE mainPanic
    /\ UNCHANGED <<subcommand, axisVars, results, lockHolder, allocVars,
                   scopeVars, cellVars, streamVars, summary, summaryPrinted,
                   lastCall>>

\* main.rs:551-569: the subcommand is matched; only "build" does work.
ParseCli ==
    /\ mainPc = "cli"
    /\ \E sc \in Subcommands :
         /\ subcommand' = sc
         /\ mainPc' = IF sc = "build" THEN "build" ELSE "exited"
    /\ UNCHANGED <<config, axisVars, results, lockHolder, allocVars,
                   mainPanic, scopeVars, cellVars, streamVars, summary,
                   summaryPrinted, lastCall>>

\* main.rs:301-310: the axes are resolved, the cells are counted and the
\* BuildResult is built.  The per-cell records of the model start here.
ResolveAxes ==
    /\ mainPc = "build"
    /\ \E ts \in SeqsUpTo(TypeLabels, MaxCells),
          ss \in SeqsUpTo(CtkLabels, MaxCells),
          ds \in SeqsUpTo(DialectLabels, MaxCells),
          cs \in SeqsUpTo(CompilerLabels, MaxCells) :
         /\ NumBuilds(ts, ss, ds, cs) <= MaxCells
         /\ types' = ts /\ ctks' = ss /\ cpp' = ds /\ compilers' = cs
         /\ num_builds' = NumBuilds(ts, ss, ds, cs)
         /\ results' = BuildResultNew(ts, ss, ds, cs)
         /\ pc' = [i \in 1..NumBuilds(ts, ss, ds, cs) |-> "unspawned"]
         /\ pb' = [i \in 1..NumBuilds(ts, ss, ds, cs) |-> "none"]
         /\ cmake' = [i \in 1..NumBuilds(ts, ss, ds, cs) |-> "none"]
         /\ ninja' = [i \in 1..NumBuilds(ts, ss, ds, cs) |-> "none"]
         /\ readError' = [i \in 1..NumBuilds(ts, ss, ds, cs) |-> FALSE]
         /\ writes' = [i \in 1..NumBuilds(ts, ss, ds, cs) |-> 0]
         /\ build_dir' = [i \in 1..NumBuilds(ts, ss, ds, cs) |-> <<>>]
    /\ mainPc' = "allocate"
    /\ UNCHANGED <<config, subcommand, lockHolder, num_cpus,
                   num_concurrent_builds, num_threads_per_build, mainPanic,
                   scopeVars, streamVars, summary, summaryPrinted, lastCall>>

\* main.rs:312-316: the CPU budget is split.  With no cell the divisor is
\* zero and the division panics.
AllocateUpTo(maxCpus) ==
    /\ mainPc = "allocate"
    /\ \E cpus \in 1..maxCpus :
         /\ num_cpus' = cpus
         /\ num_concurrent_builds' = NumConcurrentBuilds(cpus, num_builds)
         /\ IF NumConcurrentBuilds(cpus, num_builds) = 0
            THEN /\ mainPanic' = "divide_by_zero"
                 /\ mainPc' = "exited"
                 /\ UNCHANGED num_threads_per_build
            ELSE /\ num_threads_per_build' =
                      NumThreadsPerBuild(cpus,
                          NumConcurrentBuilds(cpus, num_builds))
                 /\ mainPc' = "scope"
                 /\ UNCHANGED mainPanic
    /\ UNCHANGED <<config, subcommand, axisVars, results, lockHolder,
                   num_builds, scopeVars, cellVars, streamVars, summary,
                   summaryPrinted, lastCall>>

Allocate == AllocateUpTo(MaxCpus)

\* main.rs:318-324: rayon::scope hands the closure to the pool; main waits.
ScopeEnter ==
    /\ mainPc = "scope"
    /\ mainPc' = "join"
    /\ scopePc' = "spawning"
    /\ UNCHANGED <<config, subcommand, axisVars, results, lockHolder,
                   allocVars, mainPanic, spawned, cleared, cellVars,
                   streamVars, summary, summaryPrinted, lastCall>>

\* main.rs:326-340: one pass of the innermost loop body: the cell's
\* ProgressBar is added and its job is spawned.
SpawnCell ==
    /\ scopePc = "spawning"
    /\ spawned < num_builds
    /\ spawned' = spawned + 1
    /\ pc' = [pc EXCEPT ![spawned + 1] = "queued"]
    /\ pb' = [pb EXCEPT ![spawned + 1] = "active"]
    /\ UNCHANGED <<mainPc, config, subcommand, axisVars, results, lockHolder,
                   allocVars, mainPanic, scopePc, cleared, cmake, ninja,
                   readError, writes, build_dir, streamVars, summary,
                   summaryPrinted, lastCall>>

\* main.rs:509: after the loops the closure clears the MultiProgress and
\* returns.
ClearDisplay ==
    /\ scopePc = "spawning"
    /\ spawned = num_builds
    /\ cleared' = TRUE
    /\ scopePc' = "returned"
    /\ UNCHANGED <<mainPc, config, subcommand, axisVars, results, lockHolder,
                   allocVars, mainPanic, spawned, cellVars, streamVars,
                   summary, summaryPrinted, lastCall>>

\* -------------------------------------------------------- cell jobs
\* main.rs:340-420: a free pool worker takes the job; the build directory
\* is derived and created, the cmake arguments are made and cmake is
\* started.  If cmake cannot be started, expect() panics in the job.
StartCell(i) ==
    /\ pc[i] = "queued"
    /\ BusyWorkers < PoolSize
    /\ build_dir' = [build_dir EXCEPT ![i] = BuildDir(Cell(i))]
    /\ \E started \in BOOLEAN :
         IF started
         THEN /\ cmake' = [cmake EXCEPT ![i] = "running"]
              /\ pc' = [pc EXCEPT ![i] = "cmake"]
         ELSE /\ cmake' = [cmake EXCEPT ![i] = "spawn_failed"]
              /\ pc' = [pc EXCEPT ![i] = "panicked"]
    /\ UNCHANGED <<mainPc, config, subcommand, axisVars, results, lockHolder,
                   allocVars, mainPanic, scopeVars, pb, ninja, readError,
                   writes, streamVars, summary, summaryPrinted, lastCall>>

\* main.rs:417-451: output() returns when cmake has exited.  On a failure
\* status the job prints stderr and returns; otherwise ninja is spawned
\* with -j num_threads_per_build, and expect() panics if it cannot be.
ConfigureExit(i) ==
    /\ pc[i] = "cmake"
    /\ \E st \in {"exited_ok", "exited_fail"}, started \in BOOLEAN :
         /\ cmake' = [cmake EXCEPT ![i] = st]
         /\ IF st = "exited_fail"
            THEN /\ pc' = [pc EXCEPT ![i] = "done"]
                 /\ UNCHANGED ninja
            ELSE IF started
            THEN /\ ninja' = [ninja EXCEPT ![i] = "running"]
                 /\ pc' = [pc EXCEPT ![i] = "read"]
            ELSE /\ ninja' = [ninja EXCEPT ![i] = "spawn_failed"]
                 /\ pc' = [pc EXCEPT ![i] = "panicked"]
    /\ UNCHANGED <<mainPc, config, subcommand, axisVars, results, lockHolder,
                   allocVars, mainPanic, scopeVars, pb, readError, writes,
                   build_dir, streamVars, summary, summaryPrinted, lastCall>>

\* The ninja child started at main.rs:447-451 exits at a time of its own
\* choosing; its status is known to the program when try_wait collects it.
ChildExit(i) ==
    /\ ninja[i] = "running"
    /\ ninja' = [ninja EXCEPT ![i] = "exited"]
    /\ UNCHANGED <<mainPc, config, subcommand, axisVars, results, lockHolder,
                   allocVars, mainPanic, scopeVars, pc, pb, cmake, readError,
                   writes, build_dir, streamVars, summary, summaryPrinted,
                   lastCall>>

\* main.rs:454-481: one read_line.  A progress line, another line and end
\* of file (an empty buffer) all lead to the poll; Err breaks out of the
\* loop.
ReadLine(i) ==
    /\ pc[i] = "read"
    /\ \E r \in {"progress", "other", "eof", "error"} :
         IF r = "error"
         THEN /\ readError' = [readError EXCEPT ![i] = TRUE]
              /\ pc' = [pc EXCEPT ![i] = "finish"]
         ELSE /\ pc' = [pc EXCEPT ![i] = "poll"]
              /\ UNCHANGED readError
    /\ UNCHANGED <<mainPc, config, subcommand, axisVars, results, lockHolder,
                   allocVars, mainPanic, scopeVars, pb, cmake, ninja, writes,
                   build_dir, streamVars, summary, summaryPrinted, lastCall>>

\* main.rs:483-491: try_wait finds the child exited: Ok(Some(status)),
\* with a success or a failure status.  A failure status only pushes a
\* glyph to a local Vec; both statuses break out of the loop.
PollExited(i) ==
    /\ pc[i] = "poll"
    /\ ninja[i] = "exited"
    /\ \E st \in {"exited_ok", "exited_fail"} :
         ninja' = [ninja EXCEPT ![i] = st]
    /\ pc' = [pc EXCEPT ![i] = "finish"]
    /\ UNCHANGED <<mainPc, config, subcommand, axisVars, results, lockHolder,
                   allocVars, mainPanic, scopeVars, pb, cmake, readError,
                   writes, build_dir, streamVars, summary, summaryPrinted,
                   lastCall>>

\* main.rs:492-494: try_wait finds the child running: Ok(None), next read.
PollRunning(i) ==
    /\ pc[i] = "poll"
    /\ ninja[i] = "running"
    /\ pc' = [pc EXCEPT ![i] = "read"]
    /\ UNCHANGED <<mainPc, config, subcommand, axisVars, results, lockHolder,
                   allocVars, mainPanic, scopeVars, pb, cmake, ninja,
                   readError, writes, build_dir, streamVars, summary,
                   summaryPrinted, lastCall>>

\* main.rs:495: try_wait fails: the error is printed and the loop goes on.
PollError(i) ==
    /\ pc[i] = "poll"
    /\ pc' = [pc EXCEPT ![i] = "read"]
    /\ UNCHANGED <<mainPc, config, subcommand, axisVars, results, lockHolder,
                   allocVars, mainPanic, scopeVars, pb, cmake, ninja,
                   readError, writes, build_dir, streamVars, summary,
                   summaryPrinted, lastCall>>

\* main.rs:499: after the loop, however it was left, the bar is finished.
Finish(i) ==
    /\ pc[i] = "finish"
    /\ pb' = [pb EXCEPT ![i] = "finished"]
    /\ pc' = [pc EXCEPT ![i] = "lock"]
    /\ UNCHANGED <<mainPc, config, subcommand, axisVars, results, lockHolder,
                   allocVars, mainPanic, scopeVars, cmake, ninja, readError,
                   writes, build_dir, streamVars, summary, summaryPrinted,
                   lastCall>>

\* AcquireLock as it would be if lock() did not wait for the holder.
AcquireLockNoWait(i) ==
    /\ pc[i] = "lock"
    /\ lockHolder' = i
    /\ pc' = [pc EXCEPT ![i] = "locked"]
    /\ UNCHANGED <<mainPc, config, subcommand, axisVars, results, allocVars,
                   mainPanic, scopeVars, pb, cmake, ninja, readError, writes,
                   build_dir, streamVars, summary, summaryPrinted, lastCall>>

\* main.rs:501: result.lock() returns once the Mutex is free.
AcquireLock(i) ==
    /\ pc[i] = "lock"
    /\ lockHolder = 0
    /\ lockHolder' = i
    /\ pc' = [pc EXCEPT ![i] = "locked"]
    /\ UNCHANGED <<mainPc, config, subcommand, axisVars, results, allocVars,
                   mainPanic, scopeVars, pb, cmake, ninja, readError, writes,
                   build_dir, streamVars, summary, summaryPrinted, lastCall>>

\* main.rs:502-503: r.success(..) on the cell's leaf, then the guard is
\* dropped as the closure ends.  A missing key panics in the job.
WriteResult(i) ==
    /\ pc[i] = "locked"
    /\ lockHolder = i
    /\ results' = success(results, Leaf(i)[1], Leaf(i)[2], Leaf(i)[3],
                          Leaf(i)[4])
    /\ writes' = [writes EXCEPT ![i] = @ + 1]
    /\ pc' = [pc EXCEPT ![i] =
                IF HasLeaf(results, Leaf(i)[1], Leaf(i)[2], Leaf(i)[3],
                           Leaf(i)[4])
                THEN "done" ELSE "panicked"]
    /\ lockHolder' = 0
    /\ UNCHANGED <<mainPc, config, subcommand, axisVars, allocVars, mainPanic,
                   scopeVars, pb, cmake, ninja, readError, build_dir,
                   streamVars, summary, summaryPrinted, lastCall>>

\* ------------------------------------------------- join and summary
Finished == {i \in CellIds : pc[i] \in {"done", "panicked"}}

\* Join as it would be if scope() returned when its closure returns.
JoinWithoutWaiting ==
    /\ mainPc = "join"
    /\ scopePc = "returned"
    /\ mainPc' = "lock_results"
    /\ scopePc' = "joined"
    /\ UNCHANGED <<config, subcommand, axisVars, results, lockHolder,
                   allocVars, mainPanic, spawned, cleared, cellVars,
                   streamVars, summary, summaryPrinted, lastCall>>

\* main.rs:510: scope() returns when the closure and every job are over;
\* if a job panicked, the panic is raised again in main.
Join ==
    /\ mainPc = "join"
    /\ scopePc = "returned"
    /\ Finished = CellIds
    /\ IF \E i \in CellIds : pc[i] = "panicked"
       THEN /\ mainPanic' = "job_panicked"
            /\ mainPc' = "exited"
       ELSE /\ mainPc' = "lock_results"
            /\ UNCHANGED mainPanic
    /\ scopePc' = "joined"
    /\ UNCHANGED <<config, subcommand, axisVars, results, lockHolder,
                   allocVars, spawned, cleared, cellVars, streamVars, summary,
                   summaryPrinted, lastCall>>

\* main.rs:512
LockResults ==
    /\ mainPc = "lock_results"
    /\ lockHolder = 0
    /\ lockHolder' = -1
    /\ mainPc' = "summary"
    /\ UNCHANGED <<config, subcommand, axisVars, results, allocVars,
                   mainPanic, scopeVars, cellVars, streamVars, summary,
                   summaryPrinted, lastCall>>

\* main.rs:514-544: the table is built from status() of every combination
\* of the axes and printed; build() returns and drops the guard.
PrintSummary ==
    /\ mainPc = "summary"
    /\ summary' = [q \in Range(types) \X Range(ctks) \X Range(cpp)
                         \X Range(compilers) |->
                      status(results, q[1], q[2], q[3], q[4])]
    /\ summaryPrinted' = TRUE
    /\ lockHolder' = 0
    /\ mainPc' = "exited"
    /\ UNCHANGED <<config, subcommand, axisVars, results, allocVars,
                   mainPanic, scopeVars, cellVars, streamVars, lastCall>>

Next ==
    \/ LoadConfig
    \/ ParseCli
    \/ ResolveAxes
    \/ Allocate
    \/ ScopeEnter
    \/ SpawnCell
    \/ ClearDisplay
    \/ \E i \in CellIds : StartCell(i)
    \/ \E i \in CellIds : ConfigureExit(i)
    \/ \E i \in CellIds : ChildExit(i)
    \/ \E i \in CellIds : ReadLine(i)
    \/ \E i \in CellIds : PollExited(i)
    \/ \E i \in CellIds : PollRunning(i)
    \/ \E i \in CellIds : PollError(i)
    \/ \E i \in CellIds : Finish(i)
    \/ \E i \in CellIds : AcquireLock(i)
    \/ \E i \in CellIds : WriteResult(i)
    \/ Join
    \/ LockResults
    \/ PrintSummary

Spec == Init /\ [][Next]_vars

\* Scheduling: main and the scope closure keep running; a pool worker that
\* is free takes a queued job; a running job takes its next step; cmake
\* and ninja exit; the Mutex is handed on; and a child that has exited is
\* not hidden from try_wait for ever by errors.
Fairness ==
    /\ WF_vars(LoadConfig) /\ WF_vars(ParseCli) /\ WF_vars(ResolveAxes)
    /\ WF_vars(Allocate) /\ WF_vars(ScopeEnter) /\ WF_vars(SpawnCell)
    /\ WF_vars(ClearDisplay) /\ WF_vars(Join) /\ WF_vars(LockResults)
    /\ WF_vars(PrintSummary)
    /\ \A i \in 1..MaxCells :
         /\ WF_vars(i \in CellIds /\ StartCell(i))
         /\ WF_vars(i \in CellIds /\ ConfigureExit(i))
         /\ WF_vars(i \in CellIds /\ ChildExit(i))
         /\ WF_vars(i \in CellIds /\ ReadLine(i))
         /\ SF_vars(i \in CellIds /\ PollExited(i))
         /\ WF_vars(i \in CellIds /\ PollRunning(i))
         /\ WF_vars(i \in CellIds /\ Finish(i))
         /\ WF_vars(i \in CellIds /\ AcquireLock(i))
         /\ WF_vars(i \in CellIds /\ WriteResult(i))

FairSpec == Spec /\ Fairness

\* ------------------------------------------ the allocator on its own
\* Any cell count meets any CPU count at main.rs:312.
AllocInit ==
    /\ mainPc = "allocate"
    /\ config = "ok"
    /\ subcommand = "build"
    /\ types = <<>> /\ ctks = <<>> /\ cpp = <<>> /\ compilers = <<>>
    /\ results = <<>>
    /\ lockHolder = 0
    /\ num_builds \in 0..MaxAllocCells
    /\ num_cpus = 0
    /\ num_concurrent_builds = 0 /\ num_threads_per_build = 0
    /\ mainPanic = "none"
    /\ scopePc = "idle" /\ spawned = 0 /\ cleared = FALSE
    /\ pc = <<>> /\ pb = <<>> /\ cmake = <<>> /\ ninja = <<>>
    /\ readError = <<>> /\ writes = <<>> /\ build_dir = <<>>
    /\ stdout_pipe = <<>> /\ stdout_open = FALSE /\ emitted = <<>>
    /\ pb_updates = <<>> /\ polls_since_block = 0
    /\ summary = <<>> /\ summaryPrinted = FALSE
    /\ lastCall = <<>>

AllocNext == AllocateUpTo(MaxAllocCpus)

AllocSpec == AllocInit /\ [][AllocNext]_vars

\* ---------------------------------------- the BuildResult on its own
\* BuildResult::new on any four axes (main.rs:234-266).
MatrixInit ==
    /\ mainPc = "matrix"
    /\ config = "ok"
    /\ subcommand = "build"
    /\ types \in SeqsUpTo(TypeLabels, MaxMatrixAxis)
    /\ ctks \in SeqsUpTo(CtkLabels, MaxMatrixAxis)
    /\ cpp \in SeqsUpTo(DialectLabels, MaxMatrixAxis)
    /\ compilers \in SeqsUpTo(CompilerLabels, MaxMatrixAxis)
    /\ results = BuildResultNew(types, ctks, cpp, compilers)
    /\ lockHolder = 0
    /\ num_builds = 0 /\ num_cpus = 0
    /\ num_concurrent_builds = 0 /\ num_threads_per_build = 0
    /\ mainPanic = "none"
    /\ scopePc = "idle" /\ spawned = 0 /\ cleared = FALSE
    /\ pc = <<>> /\ pb = <<>> /\ cmake = <<>> /\ ninja = <<>>
    /\ readError = <<>> /\ writes = <<>> /\ build_dir = <<>>
    /\ stdout_pipe = <<>> /\ stdout_open = FALSE /\ emitted = <<>>
    /\ pb_updates = <<>> /\ polls_since_block = 0
    /\ summary = <<>> /\ summaryPrinted = FALSE
    /\ lastCall = <<>>

\* BuildResult::success (main.rs:268-279) called with any four labels,
\* of the axes or not; a panic ends the thread.
MarkSuccess ==
    /\ mainPc = "matrix"
    /\ mainPanic = "none"
    /\ \E t \in TypeLabels, s \in CtkLabels, d \in DialectLabels,
          c \in CompilerLabels :
         /\ lastCall' = <<t, s, d, c>>
         /\ results' = success(results, t, s, d, c)
         /\ mainPanic' = IF HasLeaf(results, t, s, d, c)
                         THEN "none" ELSE "unwrap_none"
    /\ UNCHANGED <<mainPc, config, subcommand, axisVars, lockHolder,
                   allocVars, scopeVars, cellVars, streamVars, summary,
                   summaryPrinted>>

MatrixNext == MarkSuccess

MatrixSpec == MatrixInit /\ [][MatrixNext]_vars

\* ---------------------------------- the build directories on their own
\* Compiler labels as a configuration may name them: "g" followed by up
\* to MaxSuffixLen characters that are '/' or '.'.
SlashLabels ==
    {<<"g">> \o w : w \in SeqsUpTo({"/", "."}, MaxSuffixLen)}

\* Any axes of at most MaxDirCells cells, the compilers named as above
\* (main.rs:301-307); no job has derived its directory yet.
DirInit ==
    /\ mainPc = "dirs"
    /\ config = "ok"
    /\ subcommand = "build"
    /\ types \in SeqsUpTo(TypeLabels, MaxDirCells)
    /\ ctks \in SeqsUpTo(CtkLabels, MaxDirCells)
    /\ cpp \in SeqsUpTo(DialectLabels, MaxDirCells)
    /\ compilers \in SeqsUpTo(SlashLabels, MaxDirCells)
    /\ NumBuilds(types, ctks, cpp, compilers) \in 1..MaxDirCells
    /\ num_builds = NumBuilds(types, ctks, cpp, compilers)
    /\ results = <<>>
    /\ lockHolder = 0
    /\ num_cpus = 0
    /\ num_concurrent_builds = 0 /\ num_threads_per_build = 0
    /\ mainPanic = "none"
    /\ scopePc = "idle" /\ spawned = 0 /\ cleared = FALSE
    /\ pc = <<>> /\ pb = <<>> /\ cmake = <<>> /\ ninja = <<>>
    /\ readError = <<>> /\ writes = <<>>
    /\ build_dir = [i \in 1..num_builds |-> <<>>]
    /\ stdout_pipe = <<>> /\ stdout_open = FALSE /\ emitted = <<>>
    /\ pb_updates = <<>> /\ polls_since_block = 0
    /\ summary = <<>> /\ summaryPrinted = FALSE
    /\ lastCall = <<>>

\* main.rs:349-369 of the job of cell i, the cells taken in spawn order.
MakeBuildDir(i) ==
    /\ mainPc = "dirs"
    /\ build_dir[i] = <<>>
    /\ \A j \in 1..(i - 1) : build_dir[j] # <<>>
    /\ build_dir' = [build_dir EXCEPT ![i] = BuildDir(Cell(i))]
    /\ UNCHANGED <<mainPc, config, subcommand, axisVars, results, lockHolder,
                   allocVars, mainPanic, scopeVars, pc, pb, cmake, ninja,
                   readError, writes, streamVars, summary, summaryPrinted,
                   lastCall>>

DirNext == \E i \in CellIds : MakeBuildDir(i)

DirSpec == DirInit /\ [][DirNext]_vars

\* ------------------------------------- the read/poll loop on its own
\* Lines ninja may write, as sequences of characters: two progress lines,
\* a line with the marker not at its start, and a line holding a byte
\* that is not valid UTF-8.
InvalidByte == "0xFF"

NinjaLines ==
    {<<"[", "1", "/", "1", "2", "]">>,
     <<"[", "1", "2", "/", "1", "2", "]">>,
     <<"x", "[", "1", "/", "1", "2", "]">>,
     <<InvalidByte>>}

Digits == {"0", "1", "2", "3", "4", "5", "6", "7", "8", "9"}

DigitValue(ch) ==
    CASE ch = "0" -> 0 [] ch = "1" -> 1 [] ch = "2" -> 2 [] ch = "3" -> 3
      [] ch = "4" -> 4 [] ch = "5" -> 5 [] ch = "6" -> 6 [] ch = "7" -> 7
      [] ch = "8" -> 8 [] ch = "9" -> 9

\* Length of the longest run of digits of line that starts at position k
\* (the greedy \d+ of the pattern).
RECURSIVE DigitRun(_, _)
DigitRun(line, k) ==
    IF k <= Len(line) /\ line[k] \in Digits
    THEN 1 + DigitRun(line, k + 1) ELSE 0

\* str::parse::<u64> of the n digits of line from position a.
RECURSIVE Decimal(_, _, _)
Decimal(line, a, n) ==
    IF n = 0 THEN 0
    ELSE Decimal(line, a, n - 1) * 10 + DigitValue(line[a + n - 1])

\* re.captures(&buf) with ^\[(?P<current>\d+)/(?P<total>\d+)\] (main.rs:435,
\* 463-470): <<total, current>> on a match, <<>> on None.
Captures(line) ==
    LET n1 == DigitRun(line, 2)
        n2 == DigitRun(line, 3 + n1)
    IN  IF /\ Len(line) >= 1 /\ line[1] = "["
           /\ n1 >= 1
           /\ Len(line) >= 2 + n1 /\ line[2 + n1] = "/"
           /\ n2 >= 1
           /\ Len(line) >= 3 + n1 + n2 /\ line[3 + n1 + n2] = "]"
        THEN <<Decimal(line, 3 + n1, n2), Decimal(line, 2, n1)>>
        ELSE <<>>

\* read_line returns Err for a line that is not valid UTF-8.
ValidUtf8(line) == \A k \in DOMAIN line : line[k] # InvalidByte

\* One cell whose cmake has succeeded and whose ninja has just been
\* spawned with a piped stdout (main.rs:447-451); the job enters the loop.
StreamInit ==
    /\ mainPc = "join"
    /\ config = "ok"
    /\ subcommand = "build"
    /\ types \in [1..1 -> TypeLabels]
    /\ ctks \in [1..1 -> CtkLabels]
    /\ cpp \in [1..1 -> DialectLabels]
    /\ compilers \in [1..1 -> CompilerLabels]
    /\ results = BuildResultNew(types, ctks, cpp, compilers)
    /\ lockHolder = 0
    /\ num_builds = 1 /\ num_cpus = 1
    /\ num_concurrent_builds = 1 /\ num_threads_per_build = 1
    /\ mainPanic = "none"
    /\ scopePc = "returned" /\ spawned = 1 /\ cleared = TRUE
    /\ pc = <<"read">> /\ pb = <<"active">>
    /\ cmake = <<"exited_ok">> /\ ninja = <<"running">>
    /\ readError = <<FALSE>> /\ writes = <<0>>
    /\ build_dir = <<BuildDir(Cell(1))>>
    /\ stdout_pipe = <<>> /\ stdout_open = TRUE /\ emitted = <<>>
    /\ pb_updates = <<>> /\ polls_since_block = 0
    /\ summary = <<>> /\ summaryPrinted = FALSE
    /\ lastCall = <<>>

\* ninja writes a line to its stdout.
NinjaWrite(i) ==
    /\ ninja[i] = "running"
    /\ stdout_open
    /\ Len(emitted) < MaxLines
    /\ \E line \in NinjaLines :
         /\ stdout_pipe' = Append(stdout_pipe, line)
         /\ emitted' = Append(emitted, line)
    /\ UNCHANGED <<mainPc, config, subcommand, axisVars, results, lockHolder,
                   allocVars, mainPanic, scopeVars, cellVars, stdout_open,
                   pb_updates, polls_since_block, summary, summaryPrinted,
                   lastCall>>

\* ninja closes its stdout, of itself or as the first part of its exit.
NinjaCloseStdout(i) ==
    /\ ninja[i] = "running"
    /\ stdout_open
    /\ stdout_open' = FALSE
    /\ UNCHANGED <<mainPc, config, subcommand, axisVars, results, lockHolder,
                   allocVars, mainPanic, scopeVars, cellVars, stdout_pipe,
                   emitted, pb_updates, polls_since_block, summary,
                   summaryPrinted, lastCall>>

\* ninja, its descriptors closed, becomes a process try_wait can collect.
NinjaExit(i) ==
    /\ ninja[i] = "running"
    /\ ~stdout_open
    /\ ninja' = [ninja EXCEPT ![i] = "exited"]
    /\ UNCHANGED <<mainPc, config, subcommand, axisVars, results, lockHolder,
                   allocVars, mainPanic, scopeVars, pc, pb, cmake, readError,
                   writes, build_dir, streamVars, summary, summaryPrinted,
                   lastCall>>

\* main.rs:454-481: a new BufReader is made over the child's stdout and
\* read_line is called once.  With lines in the pipe, read() moves the
\* first k of them into the reader's buffer (all that fit); read_line
\* returns the first, and the reader is dropped with the rest at the end
\* of the block.  A line that matches the pattern sets the bar.  With the
\* pipe empty, read_line waits while the write end is open and returns an
\* empty buffer at once when it is closed.  Err breaks out of the loop.
StreamReadLine(i) ==
    /\ pc[i] = "read"
    /\ IF stdout_pipe # <<>>
       THEN /\ \E k \in 1..Len(stdout_pipe) :
                 stdout_pipe' = SubSeq(stdout_pipe, k + 1, Len(stdout_pipe))
            /\ polls_since_block' = 0
            /\ IF ValidUtf8(Head(stdout_pipe))
               THEN /\ pb_updates' =
                        IF Captures(Head(stdout_pipe)) # <<>>
                        THEN Append(pb_updates, Captures(Head(stdout_pipe)))
                        ELSE pb_updates
                    /\ pc' = [pc EXCEPT ![i] = "poll"]
                    /\ UNCHANGED readError
               ELSE /\ readError' = [readError EXCEPT ![i] = TRUE]
                    /\ pc' = [pc EXCEPT ![i] = "finish"]
                    /\ UNCHANGED pb_updates
       ELSE /\ ~stdout_open
            /\ pc' = [pc EXCEPT ![i] = "poll"]
            /\ UNCHANGED <<stdout_pipe, polls_since_block, pb_updates,
                           readError>>
    /\ UNCHANGED <<mainPc, config, subcommand, axisVars, results, lockHolder,
                   allocVars, mainPanic, scopeVars, pb, cmake, ninja, writes,
                   build_dir, stdout_open, emitted, summary, summaryPrinted,
                   lastCall>>

\* main.rs:483-491: try_wait returns Ok(Some(status)); the loop is left.
StreamPollExited(i) ==
    /\ pc[i] = "poll"
    /\ ninja[i] = "exited"
    /\ \E st \in {"exited_ok", "exited_fail"} :
         ninja' = [ninja EXCEPT ![i] = st]
    /\ pc' = [pc EXCEPT ![i] = "finish"]
    /\ UNCHANGED <<mainPc, config, subcommand, axisVars, results, lockHolder,
                   allocVars, mainPanic, scopeVars, pb, cmake, readError,
                   writes, build_dir, streamVars, summary, summaryPrinted,
                   lastCall>>

\* main.rs:492-496: try_wait returns Ok(None), or Err, which is printed;
\* either way the loop goes straight back to the read.
StreamPollAgain(i) ==
    /\ pc[i] = "poll"
    /\ \E r \in {"none", "error"} : r = "none" => ninja[i] = "running"
    /\ polls_since_block < MaxPolls
    /\ polls_since_block' = polls_since_block + 1
    /\ pc' = [pc EXCEPT ![i] = "read"]
    /\ UNCHANGED <<mainPc, config, subcommand, axisVars, results, lockHolder,
                   allocVars, mainPanic, scopeVars, pb, cmake, ninja,
                   readError, writes, build_dir, stdout_pipe, stdout_open,
                   emitted, pb_updates, summary, summaryPrinted, lastCall>>

StreamNext ==
    \/ \E i \in CellIds : NinjaWrite(i)
    \/ \E i \in CellIds : NinjaCloseStdout(i)
    \/ \E i \in CellIds : NinjaExit(i)
    \/ \E i \in CellIds : StreamReadLine(i)
    \/ \E i \in CellIds : StreamPollExited(i)
    \/ \E i \in CellIds : StreamPollAgain(i)

StreamSpec == StreamInit /\ [][StreamNext]_vars

\* ============================================================ claims
RECURSIVE SumTo(_, _)
SumTo(f, n) == IF n = 0 THEN 0 ELSE f[n] + SumTo(f, n - 1)

TotalWrites == SumTo(writes, num_builds)

Twin(i) == {j \in CellIds : j # i /\ Leaf(j) = Leaf(i)}

NoReadError == \A i \in CellIds : ~readError[i]

NoTwins == \A i \in CellIds : Twin(i) = {}

OnlySucceededCellsWrote ==
    \A j \in CellIds :
        writes[j] > 0 => /\ cmake[j] = "exited_ok"
                         /\ ninja[j] = "exited_ok"
                         /\ ~readError[j]

\* C1: for every cell whose build step exits with a non-success status the
\* leaf of the cell is false in the matrix the summary renderer reads, and a
\* leaf is true there only when a cell of that leaf had configure and build
\* both exit with success.  Stated for the runs in which no read of build
\* output failed (those are C2's).
C1_LeafTrueOnlyOnSuccess ==
    (summaryPrinted /\ NoReadError) =>
        /\ \A i \in CellIds :
             ninja[i] = "exited_fail" => summary[Leaf(i)] = "red_cross"
        /\ \A q \in DOMAIN summary :
             summary[q] = "green_check" =>
                \E i \in CellIds : /\ Leaf(i) = q
                                   /\ cmake[i] = "exited_ok"
                                   /\ ninja[i] = "exited_ok"

\* C2: when read_line on the build output returns an error the read loop
\* is left and the cell counts as a build failure: its leaf is false in
\* the matrix the summary renderer reads.
C2_ReadErrorIsBuildFailure ==
    \A i \in CellIds :
        readError[i] =>
            /\ pc[i] \notin {"read", "poll"}
            /\ summaryPrinted => summary[Leaf(i)] = "red_cross"

\* C3: when the configure step of a cell exits non-zero, the build step of
\* the cell is never started, the cell makes no write to the matrix, its
\* job ends without a panic, and its leaf is false in the printed summary.
\* Stated for the runs in which only cells whose configure and build both
\* succeeded have written (the other writes are C1's and C2's).
C3_ConfigureFailureSkipsBuild ==
    OnlySucceededCellsWrote =>
        \A i \in CellIds :
            cmake[i] = "exited_fail" =>
                /\ ninja[i] = "none"
                /\ writes[i] = 0
                /\ pc[i] = "done"
                /\ summaryPrinted => summary[Leaf(i)] = "red_cross"

\* What holds of C3: the cell's own effects, and its leaf when no other
\* cell was enumerated with the same four labels.
ConfigureFailureOwnEffects ==
    \A i \in CellIds :
        cmake[i] = "exited_fail" =>
            /\ ninja[i] = "none"
            /\ writes[i] = 0
            /\ pc[i] = "done"
            /\ (summaryPrinted /\ Twin(i) = {}) =>
                   summary[Leaf(i)] = "red_cross"

\* C4: a failure to start cmake or ninja for one cell is never fatal to
\* the process: main does not panic, and when the run ends every cell has
\* finished, the summary was printed and the cell's leaf is false.
C4_SpawnFailureIsPerCell ==
    \A i \in CellIds :
        (cmake[i] = "spawn_failed" \/ ninja[i] = "spawn_failed") =>
            /\ mainPanic = "none"
            /\ mainPc = "exited" =>
                  /\ Finished = CellIds
                  /\ summaryPrinted
                  /\ summary[Leaf(i)] = "red_cross"

\* C5: a run that got past the pre-execution checks (entered the scope)
\* does not end before every job has terminated, the join was passed and
\* the summary table was printed.
C5_RunEndsWithSummary ==
    (mainPc = "exited" /\ scopePc # "idle") =>
        /\ Finished = CellIds
        /\ scopePc = "joined"
        /\ summaryPrinted

\* What holds of C5, under FairSpec: a run that entered the scope prints
\* the summary unless a job panicked.
SummaryUnlessPanic ==
    (mainPc = "join") ~> (summaryPrinted \/ mainPanic = "job_panicked")

\* C6: with an empty axis (zero cells) the run is rejected before the
\* allocator: the allocator never divides by zero, and no cell runs.
C6_EmptyAxisNeverDivides ==
    /\ mainPanic # "divide_by_zero"
    /\ num_builds = 0 => scopePc = "idle"

\* C7: for num_builds >= 1 and num_cpus >= 1 the allocator's concurrency is
\* the smaller of the two, threads per build is the floor of num_cpus over
\* the concurrency, both are at least 1, and their product is at most
\* num_cpus.
C7_AllocatorBounds ==
    (num_builds >= 1 /\ num_cpus >= 1) =>
        /\ num_concurrent_builds \in {num_cpus, num_builds}
        /\ num_concurrent_builds <= num_cpus
        /\ num_concurrent_builds <= num_builds
        /\ num_concurrent_builds >= 1
        /\ num_threads_per_build >= 1
        /\ num_threads_per_build * num_concurrent_builds <= num_cpus
        /\ num_cpus < (num_threads_per_build + 1) * num_concurrent_builds

C7_Witness ==
    /\ num_builds = 3 /\ num_cpus = 7
    /\ num_concurrent_builds = 3 /\ num_threads_per_build = 2

\* C8: at most num_concurrent_builds jobs execute at a time, and the job
\* counts (-j) of the ninja processes in flight sum to at most num_cpus.
\* Stated for the runs whose cells are pairwise distinct.
C8_ConcurrencyBounded ==
    NoTwins =>
        /\ Cardinality(Running) <= num_concurrent_builds
        /\ Cardinality({i \in CellIds : ninja[i] = "running"})
              * num_threads_per_build <= num_cpus

\* What holds of C8: the jobs executing, and the ninja processes whose job
\* is still in its read/poll loop, stay within the allocator's numbers.
RunnersWithinConcurrency ==
    /\ Cardinality(Running) <= num_concurrent_builds
    /\ Cardinality({i \in CellIds : pc[i] \in {"read", "poll"}})
          * num_threads_per_build <= num_cpus

AllSucceeded ==
    \A i \in CellIds : /\ cmake[i] = "exited_ok"
                       /\ ninja[i] = "exited_ok"
                       /\ ~readError[i]

KeysAsConstructed ==
    /\ DOMAIN results = Range(types)
    /\ \A t \in DOMAIN results :
         /\ DOMAIN results[t] = Range(ctks)
         /\ \A s \in DOMAIN results[t] :
              /\ DOMAIN results[t][s] = Range(cpp)
              /\ \A d \in DOMAIN results[t][s] :
                   DOMAIN results[t][s][d] = Range(compilers)

OutsideCallFailsFast ==
    (/\ lastCall # <<>>
     /\ \/ lastCall[1] \notin Range(types)
        \/ lastCall[2] \notin Range(ctks)
        \/ lastCall[3] \notin Range(cpp)
        \/ lastCall[4] \notin Range(compilers))
    => mainPanic = "unwrap_none"

LeavesMonotone ==
    \A q \in Leaves(results) :
        LeafValue(results, q) =>
            (q \in Leaves(results') /\ LeafValue(results', q))

\* C10: at every moment the matrix has exactly the keys of the axes it was
\* built from, at each of its four levels; success on labels outside the
\* axes panics and inserts nothing; a leaf that is true stays true.
C10_KeysFixedLeavesMonotone ==
    /\ [](KeysAsConstructed /\ OutsideCallFailsFast)
    /\ [][LeavesMonotone]_vars

C10_Witness ==
    /\ mainPanic = "unwrap_none"
    /\ \E q \in Leaves(results) : LeafValue(results, q)

\* No job has started: every cell is still to be spawned or waits in the
\* pool's queue.
NoRunnerStarted == \A i \in CellIds : pc[i] \in {"unspawned", "queued"}

AxesProduct == Range(types) \X Range(ctks) \X Range(cpp) \X Range(compilers)

\* C11: once the matrix is built and before any job starts, the matrix
\* holds a leaf for every (build type, ctk, dialect, compiler) combination
\* of the axes, holds no other leaf, and every leaf is false.
C11_FreshMatrixAllFalse ==
    (mainPc \notin {"load_config", "cli", "build"} /\ NoRunnerStarted) =>
        /\ \A q \in AxesProduct :
             /\ HasLeaf(results, q[1], q[2], q[3], q[4])
             /\ ~LeafValue(results, q)
             /\ status(results, q[1], q[2], q[3], q[4]) = "red_cross"
        /\ Leaves(results) = AxesProduct

C11_Witness ==
    /\ scopePc = "spawning" /\ spawned = 2
    /\ NoRunnerStarted
    /\ Cardinality(Leaves(results)) = 2
    /\ \A q \in Leaves(results) : ~LeafValue(results, q)

\* A call of success with the labels of lastCall', all four of the axes:
\* the leaf is true afterwards and status() gives the success glyph, the
\* leaves are the same leaves, and every other leaf has the value it had.
SuccessTouchesOneLeaf ==
    LET q == lastCall' IN
    (q # <<>> /\ q \in AxesProduct) =>
        /\ mainPanic' = "none"
        /\ LeafValue(results', q)
        /\ status(results', q[1], q[2], q[3], q[4]) = "green_check"
        /\ Leaves(results') = Leaves(results)
        /\ \A o \in Leaves(results) \ {q} :
             LeafValue(results', o) = LeafValue(results, o)

\* C12: success(t, s, d, c) on a key the matrix was built with makes
\* status(t, s, d, c) the success glyph and leaves every other leaf as it
\* was, whatever the matrix held before the call.
C12_MarkSuccessIsolated == [][SuccessTouchesOneLeaf]_vars

C12_Witness ==
    /\ lastCall \in AxesProduct
    /\ mainPanic = "none"
    /\ LeafValue(results, lastCall)
    /\ \E o \in Leaves(results) : ~LeafValue(results, o)

\* C13: the progress indicators are cleared only after every cell has
\* finished: the display is never cleared while a job waits in the queue
\* or runs.
C13_ClearAfterAllCells ==
    cleared => Finished = CellIds

\* C14: the summary reads the matrix only after every job has terminated:
\* while main holds the matrix for the summary, and from then on, every
\* cell is over and no job holds or awaits the lock, and the table printed
\* is the status of the matrix as it is at the end (no write follows the
\* read).
C14_SummaryAfterAllRunners ==
    (mainPc = "summary" \/ summaryPrinted) =>
        /\ Finished = CellIds
        /\ lockHolder \notin CellIds
        /\ summaryPrinted =>
              \A q \in DOMAIN summary :
                  summary[q] = status(results, q[1], q[2], q[3], q[4])

C14_Witness ==
    /\ summaryPrinted
    /\ num_builds = 2 /\ NoTwins
    /\ \E i \in CellIds : writes[i] = 1 /\ summary[Leaf(i)] = "green_check"
    /\ \E i \in CellIds : writes[i] = 0 /\ summary[Leaf(i)] = "red_cross"

\* Threads inside a critical section of the matrix lock: jobs between
\* lock() and the end of their closure, main between lock() and the end of
\* build().
InCritical ==
    {i \in CellIds : pc[i] = "locked"}
        \cup (IF mainPc = "summary" THEN {-1} ELSE {})

\* At most one thread is in a critical section; a job in its critical
\* section has left its configure step (cmake exited) and its read/poll
\* loop (the progress bar is finished); a job that is over holds nothing.
LockExclusive ==
    /\ Cardinality(InCritical) <= 1
    /\ InCritical = IF lockHolder = 0 THEN {} ELSE {lockHolder}
    /\ \A i \in CellIds :
         pc[i] \in {"lock", "locked"} =>
            /\ cmake[i] = "exited_ok"
            /\ pb[i] = "finished"
    /\ \A i \in Finished : lockHolder # i

\* While a job holds the lock nothing changes the matrix but that job's
\* one write, and the step that writes is the step that releases.
LockHeldForOneWrite ==
    /\ lockHolder \in CellIds =>
          \/ /\ lockHolder' = lockHolder
             /\ results' = results
             /\ writes' = writes
          \/ /\ lockHolder' = 0
             /\ writes'[lockHolder] = writes[lockHolder] + 1
             /\ pc'[lockHolder] \in {"done", "panicked"}
    /\ (results' # results /\ mainPc # "build") => lockHolder \in CellIds

LockEventuallyReleased ==
    \A i \in 1..MaxCells : (lockHolder = i) ~> (lockHolder # i)

AllSpawned == scopePc \in {"returned", "joined"}

Injective(f) == \A x, y \in DOMAIN f : f[x] = f[y] => x = y

\* C16: when every axis has at least one element, the loops spawn exactly
\* |types| * |ctks| * |compilers| * |dialects| cells and no two cells have
\* the same (build type, ctk, compiler, dialect) tuple.
C16_CellsCountedAndDistinct ==
    (AllSpawned /\ num_builds >= 1) =>
        /\ spawned = Len(types) * Len(ctks) * Len(compilers) * Len(cpp)
        /\ \A i, j \in 1..spawned : i # j => Cell(i) # Cell(j)

\* What holds of C16: the count, and distinct cells when no axis was given
\* a label twice.
CellsDistinctForDistinctLabels ==
    (AllSpawned /\ num_builds >= 1) =>
        /\ spawned = Len(types) * Len(ctks) * Len(compilers) * Len(cpp)
        /\ (Injective(types) /\ Injective(ctks) /\ Injective(cpp)
                /\ Injective(compilers)) =>
              \A i, j \in 1..spawned : i # j => Cell(i) # Cell(j)

\* C17: each cell is run by one job, which writes at most once, and no
\* leaf of the matrix is written by two different jobs.
C17_OneWriterPerLeaf ==
    /\ \A i \in CellIds : writes[i] <= 1
    /\ \A i, j \in CellIds :
         (i # j /\ writes[i] > 0 /\ writes[j] > 0) => Leaf(i) # Leaf(j)

\* What holds of C17: a job writes at most once and only to the leaf of its
\* own cell, so a leaf has two writers only when two cells share a tuple.
OneWriterPerCell ==
    /\ \A i \in CellIds : writes[i] <= 1
    /\ \A q \in Leaves(results) :
         LeafValue(results, q) =>
            \E i \in CellIds : Leaf(i) = q /\ writes[i] = 1

\* The outcome of the external tools for cell i that decides whether the
\* job reaches its write: cmake exited with success and ninja was started.
ToolsLetCellWrite(i) ==
    /\ cmake[i] = "exited_ok"
    /\ ninja[i] \notin {"none", "spawn_failed"}

\* The matrix as a function of the axes and of the tools' outcome per cell.
ExpectedLeaf(q) == \E i \in CellIds : Leaf(i) = q /\ ToolsLetCellWrite(i)

\* C18: the final content of the matrix is the same for every interleaving
\* and completion order: once every job is over, each leaf is determined by
\* the axes and the outcome of the tools for the cells of that leaf alone,
\* and the printed summary shows that content.
C18_FinalMatrixDeterministic ==
    /\ (scopePc # "idle" /\ Finished = CellIds) =>
          /\ Leaves(results) = AxesProduct
          /\ \A q \in Leaves(results) : LeafValue(results, q) = ExpectedLeaf(q)
    /\ summaryPrinted =>
          \A q \in DOMAIN summary :
              summary[q] = IF ExpectedLeaf(q) THEN "green_check"
                           ELSE "red_cross"

C18_Witness ==
    /\ summaryPrinted
    /\ num_builds = 2 /\ num_concurrent_builds = 2
    /\ NoTwins
    /\ \A i \in CellIds : ToolsLetCellWrite(i) /\ writes[i] = 1
    /\ \A q \in DOMAIN summary : summary[q] = "green_check"

\* C19: two cells of a run with different (build type, ctk, compiler
\* label, dialect) tuples never get the same build directory.
C19_BuildDirUnique ==
    \A i, j \in CellIds :
        (/\ build_dir[i] # <<>> /\ build_dir[j] # <<>>
         /\ Cell(i) # Cell(j))
        => build_dir[i] # build_dir[j]

\* What holds of C19: distinct cells get distinct directories when no
\* compiler label contains a '/'.
BuildDirUniqueWithoutSlash ==
    (\A k \in DOMAIN compilers :
        \A n \in DOMAIN compilers[k] : compilers[k][n] # "/")
    => C19_BuildDirUnique

\* C20: when the configuration cannot be loaded the run ends before any
\* cell runs: no subcommand is looked at, no axis is resolved, no cell is
\* counted or spawned, no cmake or ninja is started, no matrix is built
\* and no summary is printed.
C20_NoConfigNoRun ==
    config \in {"error", "no_config_dir"} =>
        /\ mainPc = "exited"
        /\ subcommand = "none"
        /\ types = <<>> /\ ctks = <<>> /\ cpp = <<>> /\ compilers = <<>>
        /\ num_builds = 0
        /\ scopePc = "idle" /\ spawned = 0
        /\ pc = <<>> /\ cmake = <<>> /\ ninja = <<>> /\ build_dir = <<>>
        /\ results = <<>>
        /\ ~summaryPrinted /\ summary = <<>>

C20_Witness ==
    /\ config = "error"
    /\ mainPc = "exited"
    /\ mainPanic = "none"

\* The updates the lines of a stream call for: one per line that matches
\* the pattern, in the order of the lines.
RECURSIVE ExpectedUpdates(_)
ExpectedUpdates(lines) ==
    IF lines = <<>> THEN <<>>
    ELSE IF Captures(Head(lines)) # <<>>
         THEN <<Captures(Head(lines))>> \o ExpectedUpdates(Tail(lines))
         ELSE ExpectedUpdates(Tail(lines))

IsPrefix(a, b) == Len(a) <= Len(b) /\ SubSeq(b, 1, Len(a)) = a

\* a can be had from b by leaving elements out.
RECURSIVE IsSubsequence(_, _)
IsSubsequence(a, b) ==
    IF a = <<>> THEN TRUE
    ELSE IF b = <<>> THEN FALSE
    ELSE IF Head(a) = Head(b) THEN IsSubsequence(Tail(a), Tail(b))
    ELSE IsSubsequence(a, Tail(b))

AllEmittedValid == \A k \in DOMAIN emitted : ValidUtf8(emitted[k])

StatusTaken(i) == ninja[i] \in {"exited_ok", "exited_fail"}

\* C21: while ninja writes valid lines, the updates of the cell's bar are
\* those of the progress lines written so far, in their order, with none
\* left out before a later one and none for a line that does not match;
\* and when try_wait has given the exit status every progress line ninja
\* wrote has had its update.
C21_ProgressLinesAllApplied ==
    \A i \in CellIds :
        AllEmittedValid =>
            /\ IsPrefix(pb_updates, ExpectedUpdates(emitted))
            /\ StatusTaken(i) => pb_updates = ExpectedUpdates(emitted)

\* What holds of C21: every update comes from a matching line ninja wrote,
\* with the numbers of that line, and the updates keep the lines' order.
UpdatesInOrderFromOwnLines ==
    IsSubsequence(pb_updates, ExpectedUpdates(emitted))

\* C22: the loop does not spin: while ninja runs, between two try_wait
\* calls in a row that do not end the loop the job has waited in a
\* read_line on the open pipe (a read_line that finds the pipe closed and
\* returns at once is no wait).
C22_NoPollWithoutWait ==
    \A i \in CellIds :
        ninja[i] = "running" => polls_since_block <= 1

\* What holds of C22: while the write end of ninja's stdout is open every
\* try_wait is preceded by a read_line that waits for a line.
PollsPacedWhileStdoutOpen ==
    stdout_open => polls_since_block <= 1
=============================================================================
